---- MODULE Spec2Model ----
(***************************************************************************)
(* Weather-APP: the weather-data access paths of the repository.           *)
(*                                                                         *)
(*  - Atmos      : src/src/App.js (fetchWx, onSearch, selectCity, render)  *)
(*  - WeatherApp : src/weather-app/src/App.js (fetch effect, fetchers)     *)
(*  - weatherApi : the request path of the design document (part_003)      *)
(*  - CacheService : the cache of the design document (part_003)           *)
(*                                                                         *)
(* Each part has its own specification; the variables of the other parts   *)
(* stay at their parked initial value.                                     *)
(*                                                                         *)
(* Upstream services are the environment.  A request is answered according *)
(* to a script the service picks: script[k] is what it would answer to the *)
(* k-th attempt of that request (the style of axios-mock-adapter's         *)
(* networkErrorOnce().reply(200) used by the repository's test examples).  *)
(***************************************************************************)
EXTENDS Integers, Sequences, FiniteSets, Bags, TLC

(* ------------------------------ bounds --------------------------------- *)
\* number of forecast requests the Atmos app may issue in one behaviour
MaxFetches == 3
\* number of geocoding requests the Atmos app may issue in one behaviour
MaxGeo == 2

(* ------------------------ documented constants ------------------------- *)
\* retry attempts and base backoff delay (ms) of the documented retry policy
MaxAttempts == 3
BaseDelay == 1000

(* --------------------------- upstream answers -------------------------- *)
\* axios-level outcomes of one HTTP attempt.  "ok" and "malformed" are HTTP
\* 200 responses (axios resolves); "malformed" is a body that lacks required
\* fields.  "net" is no response; "s429", "s500", "s400" are HTTP statuses
\* (axios rejects on every non-2xx status).
Resolving == {"ok", "malformed"}
Rejecting == {"net", "s429", "s500", "s400"}
Outcomes == Resolving \cup Rejecting
\* retryable / non-retryable classes of the error taxonomy
Retryable == {"net", "s429", "s500"}
NonRetryable == {"s400", "malformed"}

AllOk == <<"ok", "ok", "ok">>
FailTwiceThenOk == <<"net", "net", "ok">>
AlwaysS500 == <<"s500", "s500", "s500">>
BadRequest == <<"s400", "ok", "ok">>
Malformed == <<"malformed", "ok", "ok">>
Scripts == {AllOk, FailTwiceThenOk, AlwaysS500, BadRequest, Malformed}

(* ------------------------------- Atmos --------------------------------- *)
VARIABLES loc, wx, loading, error, query, hits, open, searchTimer,
          wxReqs, nextGen, loadTimers, geoReqs, geoSeq, crashed, lastSettled

atmosVars == <<loc, wx, loading, error, query, hits, open, searchTimer,
               wxReqs, nextGen, loadTimers, geoReqs, geoSeq, crashed,
               lastSettled>>

\* CacheService: the Map, Date.now() in minutes, and what callers observed
VARIABLES cache, now, written, lastGet

cacheVars == <<cache, now, written, lastGet>>

\* weatherApi request path: one call of the service function
VARIABLES apiPc, apiScript, apiCalls, apiDelays, apiResult, apiDone

apiVars == <<apiPc, apiScript, apiCalls, apiDelays, apiResult, apiDone>>

\* WeatherApp (src/weather-app/src/App.js): component state, the requests in
\* flight, and whether weatherData is still within its freshness window
VARIABLES location, weatherData, historicalData, marineData, wpLoading,
          wpError, activeView, selectedHistoricalDate, searchInput,
          searchResults, showSearch, wpReqs, wpSeq, wpFresh, wpCrashed

wpVars == <<location, weatherData, historicalData, marineData, wpLoading,
            wpError, activeView, selectedHistoricalDate, searchInput,
            searchResults, showSearch, wpReqs, wpSeq, wpFresh, wpCrashed>>

\* sanitizeSearchQuery (design document): the argument, the position in the
\* call and the value returned
VARIABLES sanInput, sanPc, sanOutput
sanVars == <<sanInput, sanPc, sanOutput>>

vars == <<atmosVars, cacheVars, apiVars, wpVars, sanVars>>

notAtmos == <<cacheVars, apiVars, wpVars, sanVars>>
notCache == <<atmosVars, apiVars, wpVars, sanVars>>
notApi == <<atmosVars, cacheVars, wpVars, sanVars>>
notWp == <<atmosVars, cacheVars, apiVars, sanVars>>
notSan == <<atmosVars, cacheVars, apiVars, wpVars>>

DefaultLoc == "New Delhi"
Locs == {"New Delhi", "Paris"}
\* values the search box can hold, as character sequences
Queries == {<< >>, <<"P">>, <<"P", "a">>, <<"N", "e">>, <<" ", " ">>}

\* useState(null) / a forecast payload tagged with the request it answers
NoData == [kind |-> "null", loc |-> "none", gen |-> 0]
Payload(r, s) == [kind |-> s[1], loc |-> r.loc, gen |-> r.gen]

NoError == "null"
FetchFailedMsg == "Unable to fetch weather data. Please check your connection and try again."

\* the geocoding service: data.results for a name, absent when nothing matches
GeoResults(q) ==
    IF q = <<"P", "a">> THEN <<"Paris">>
    ELSE IF q = <<"N", "e">> THEN <<"New Delhi">>
    ELSE << >>

NoSettled == [gen |-> 0, loc |-> "none", script |-> AllOk, calls |-> 0,
              delays |-> << >>, result |-> "none"]

\* what render returns: splash while loading without data, the full-screen
\* error state when there is an error and no data, the main view otherwise
Screen ==
    IF crashed THEN "crashed"
    ELSE IF loading /\ wx = NoData THEN "splash"
    ELSE IF error # NoError /\ wx = NoData THEN "error"
    ELSE "main"

\* the kind of failure the error state tells the user: the catch block drops
\* the caught error and always emits the connection message, under the title
\* "Connection Error"
EmittedErrorKind == IF error = NoError THEN "none" ELSE "NetworkError"

\* a fetchWx that answers from the data held for the location, when there is
\* some, instead of asking upstream
FetchWxStart_HeldFirst(l) ==
    IF wx.kind = "ok" /\ wx.loc = l
      THEN UNCHANGED <<loading, error, wxReqs, nextGen>>
      ELSE /\ nextGen <= MaxFetches
           /\ loading' = TRUE
           /\ error' = NoError
           /\ wxReqs' = wxReqs \cup {[gen |-> nextGen, loc |-> l, calls |-> 1]}
           /\ nextGen' = nextGen + 1

\* fetchWx up to its await: one axios.get is issued
FetchWxStart(l) ==
    /\ nextGen <= MaxFetches
    /\ loading' = TRUE
    /\ error' = NoError
    /\ wxReqs' = wxReqs \cup {[gen |-> nextGen, loc |-> l, calls |-> 1]}
    /\ nextGen' = nextGen + 1

AtmosInit ==
    /\ loc = DefaultLoc
    /\ wx = NoData
    /\ loading = TRUE
    /\ error = NoError
    /\ query = << >>
    /\ hits = << >>
    /\ open = FALSE
    /\ searchTimer = {}
    /\ wxReqs = {[gen |-> 1, loc |-> DefaultLoc, calls |-> 1]}
    /\ nextGen = 2
    /\ loadTimers = 0
    /\ geoReqs = EmptyBag
    /\ geoSeq = 1
    /\ crashed = FALSE
    /\ lastSettled = NoSettled

Settled(r, s, res) ==
    [gen |-> r.gen, loc |-> r.loc, script |-> s, calls |-> r.calls,
     delays |-> << >>, result |-> res]

\* fetchWx after the await, try branch: setWx(data), then the finally block
WxResolve(r, s) ==
    /\ ~crashed
    /\ r \in wxReqs
    /\ s[1] \in Resolving
    /\ wxReqs' = wxReqs \ {r}
    /\ wx' = Payload(r, s)
    /\ loadTimers' = loadTimers + 1
    /\ lastSettled' = Settled(r, s, "stored")
    /\ crashed' \in (IF s[1] = "malformed" THEN BOOLEAN ELSE {FALSE})
    /\ UNCHANGED <<loc, loading, error, query, hits, open, searchTimer,
                   nextGen, geoReqs, geoSeq>>
    /\ UNCHANGED notAtmos

\* a catch branch that also drops the data held
WxReject_DropsData(r, s) ==
    /\ ~crashed
    /\ r \in wxReqs
    /\ s[1] \in Rejecting
    /\ wxReqs' = wxReqs \ {r}
    /\ wx' = NoData
    /\ error' = FetchFailedMsg
    /\ loadTimers' = loadTimers + 1
    /\ lastSettled' = Settled(r, s, "failed")
    /\ UNCHANGED <<loc, loading, query, hits, open, searchTimer,
                   nextGen, geoReqs, geoSeq, crashed>>
    /\ UNCHANGED notAtmos

\* fetchWx after the await, catch branch: setError(...), then the finally block
WxReject(r, s) ==
    /\ ~crashed
    /\ r \in wxReqs
    /\ s[1] \in Rejecting
    /\ wxReqs' = wxReqs \ {r}
    /\ error' = FetchFailedMsg
    /\ loadTimers' = loadTimers + 1
    /\ lastSettled' = Settled(r, s, "failed")
    /\ UNCHANGED <<loc, wx, loading, query, hits, open, searchTimer,
                   nextGen, geoReqs, geoSeq, crashed>>
    /\ UNCHANGED notAtmos

\* a timer callback that leaves the flag as it is
LoadTimerFire_KeepsLoading ==
    /\ ~crashed
    /\ loadTimers > 0
    /\ loadTimers' = loadTimers - 1
    /\ loading' = loading
    /\ UNCHANGED <<loc, wx, error, query, hits, open, searchTimer, wxReqs,
                   nextGen, geoReqs, geoSeq, crashed, lastSettled>>
    /\ UNCHANGED notAtmos

\* the timer armed by the finally block: setLoading(false)
LoadTimerFire ==
    /\ ~crashed
    /\ loadTimers > 0
    /\ loadTimers' = loadTimers - 1
    /\ loading' = FALSE
    /\ UNCHANGED <<loc, wx, error, query, hits, open, searchTimer, wxReqs,
                   nextGen, geoReqs, geoSeq, crashed, lastSettled>>
    /\ UNCHANGED notAtmos

\* Retry button of the full-screen error state
Retry ==
    /\ Screen = "error"
    /\ FetchWxStart(loc)
    /\ UNCHANGED <<loc, wx, query, hits, open, searchTimer, loadTimers,
                   geoReqs, geoSeq, crashed, lastSettled>>
    /\ UNCHANGED notAtmos

\* dismiss button of the error banner
DismissError ==
    /\ Screen = "main"
    /\ error # NoError
    /\ error' = NoError
    /\ UNCHANGED <<loc, wx, loading, query, hits, open, searchTimer, wxReqs,
                   nextGen, loadTimers, geoReqs, geoSeq, crashed, lastSettled>>
    /\ UNCHANGED notAtmos

\* setTimeout(..., 300) of onSearch, in milliseconds
DebounceMs == 300

\* an onChange that arms a timer without clearing the pending one
OnSearch_NoClear(v) ==
    /\ Screen = "main"
    /\ v # query
    /\ query' = v
    /\ IF Len(v) < 2
         THEN /\ hits' = << >>
              /\ searchTimer' = searchTimer
         ELSE /\ hits' = hits
              /\ searchTimer' = searchTimer \cup
                                 {[q |-> v, delay |-> DebounceMs]}
    /\ UNCHANGED <<loc, wx, loading, error, open, wxReqs, nextGen,
                   loadTimers, geoReqs, geoSeq, crashed, lastSettled>>
    /\ UNCHANGED notAtmos

\* onChange of the search input
OnSearch(v) ==
    /\ Screen = "main"
    /\ v # query
    /\ query' = v
    /\ IF Len(v) < 2
         THEN /\ hits' = << >>
              /\ searchTimer' = {}
         ELSE /\ hits' = hits
              /\ searchTimer' = {[q |-> v, delay |-> DebounceMs]}
    /\ UNCHANGED <<loc, wx, loading, error, open, wxReqs, nextGen,
                   loadTimers, geoReqs, geoSeq, crashed, lastSettled>>
    /\ UNCHANGED notAtmos

\* the debounce timer fires: the geocoding request is issued
SearchTimerFire(v) ==
    /\ ~crashed
    /\ \E t \in searchTimer :
         /\ t.q = v
         /\ searchTimer' = searchTimer \ {t}
         /\ geoReqs' = geoReqs (+) SetToBag({[q |-> v]})
    /\ geoSeq <= MaxGeo
    /\ geoSeq' = geoSeq + 1
    /\ UNCHANGED <<loc, wx, loading, error, query, hits, open, wxReqs,
                   nextGen, loadTimers, crashed, lastSettled>>
    /\ UNCHANGED notAtmos

\* the geocoding request resolves: setHits(data.results || [])
GeoResolve(g) ==
    /\ ~crashed
    /\ BagIn(g, geoReqs)
    /\ geoReqs' = geoReqs (-) SetToBag({g})
    /\ hits' = GeoResults(g.q)
    /\ UNCHANGED <<loc, wx, loading, error, query, open, searchTimer, wxReqs,
                   nextGen, loadTimers, geoSeq, crashed, lastSettled>>
    /\ UNCHANGED notAtmos

\* the geocoding request rejects: setHits([])
GeoReject(g) ==
    /\ ~crashed
    /\ BagIn(g, geoReqs)
    /\ geoReqs' = geoReqs (-) SetToBag({g})
    /\ hits' = << >>
    /\ UNCHANGED <<loc, wx, loading, error, query, open, searchTimer, wxReqs,
                   nextGen, loadTimers, geoSeq, crashed, lastSettled>>
    /\ UNCHANGED notAtmos

\* onFocus of the search input
FocusInput ==
    /\ Screen = "main"
    /\ Len(hits) > 0
    /\ ~open
    /\ open' = TRUE
    /\ UNCHANGED <<loc, wx, loading, error, query, hits, searchTimer, wxReqs,
                   nextGen, loadTimers, geoReqs, geoSeq, crashed, lastSettled>>
    /\ UNCHANGED notAtmos

\* mousedown outside the search box
OutsideClick ==
    /\ Screen = "main"
    /\ open
    /\ open' = FALSE
    /\ UNCHANGED <<loc, wx, loading, error, query, hits, searchTimer, wxReqs,
                   nextGen, loadTimers, geoReqs, geoSeq, crashed, lastSettled>>
    /\ UNCHANGED notAtmos

\* the clear button of the search box
ClearSearch ==
    /\ Screen = "main"
    /\ query # << >>
    /\ query' = << >>
    /\ hits' = << >>
    /\ open' = FALSE
    /\ UNCHANGED <<loc, wx, loading, error, searchTimer, wxReqs, nextGen,
                   loadTimers, geoReqs, geoSeq, crashed, lastSettled>>
    /\ UNCHANGED notAtmos

\* click on a dropdown item, followed by the effect on [loc]: fetchWx
SelectCity(i) ==
    /\ Screen = "main"
    /\ open
    /\ i \in 1..Len(hits)
    /\ loc' = hits[i]
    /\ open' = FALSE
    /\ query' = << >>
    /\ hits' = << >>
    /\ FetchWxStart(hits[i])
    /\ UNCHANGED <<wx, searchTimer, loadTimers, geoReqs, geoSeq, crashed,
                   lastSettled>>
    /\ UNCHANGED notAtmos

AtmosNext ==
    \/ \E r \in wxReqs : \E s \in Scripts : WxResolve(r, s)
    \/ \E r \in wxReqs : \E s \in Scripts : WxReject(r, s)
    \/ LoadTimerFire
    \/ Retry
    \/ DismissError
    \/ \E v \in Queries : OnSearch(v)
    \/ \E v \in Queries : SearchTimerFire(v)
    \/ \E g \in BagToSet(geoReqs) : GeoResolve(g)
    \/ \E g \in BagToSet(geoReqs) : GeoReject(g)
    \/ FocusInput
    \/ OutsideClick
    \/ ClearSearch
    \/ \E i \in 1..1 : SelectCity(i)

\* Atmos at rest, for the specifications of the other parts
AtmosParked ==
    /\ loc = DefaultLoc /\ wx = NoData /\ loading = TRUE /\ error = NoError
    /\ query = << >> /\ hits = << >> /\ open = FALSE /\ searchTimer = {}
    /\ wxReqs = {[gen |-> 1, loc |-> DefaultLoc, calls |-> 1]}
    /\ nextGen = 2 /\ loadTimers = 0 /\ geoReqs = EmptyBag /\ geoSeq = 1
    /\ crashed = FALSE /\ lastSettled = NoSettled

(* ----------------------------- WeatherApp ------------------------------ *)
\* number of requests the WeatherApp may issue in one behaviour
MaxWpReqs == 5
\* the same for the longer behaviours, in which the location is changed on
\* the marine tab (six requests: 1, 2 + 1, 1, 2)
MaxWpLongReqs == 6

Views == {"current", "historical", "marine"}
Dates == {"d1", "d2"}
\* latitude and longitude of the places the geocoder knows
Coord(name) ==
    IF name = "New Delhi" THEN [lat |-> 28, lon |-> 77]
    ELSE IF name = "Offgrid" THEN [lat |-> 95, lon |-> 77]
    ELSE IF name = "Equator" THEN [lat |-> 0, lon |-> 32]
    ELSE [lat |-> 48, lon |-> 2]
\* what the search form can hold, as character sequences
WpQueries == {<<" ", "\t">>, <<"P", "a">>, <<"Z", "z">>}

\* the characters String.prototype.trim strips, as far as they are typed here
Whitespace == {" ", "\t", "\n", "\r"}
\* String.prototype.trim on a character sequence
TrimLeft(q) ==
    LET kept == {i \in 1..Len(q) : q[i] \notin Whitespace} IN
    IF kept = {} THEN << >>
    ELSE SubSeq(q, CHOOSE i \in kept : \A j \in kept : i <= j, Len(q))
TrimRight(q) ==
    LET kept == {i \in 1..Len(q) : q[i] \notin Whitespace} IN
    IF kept = {} THEN << >>
    ELSE SubSeq(q, 1, CHOOSE i \in kept : \A j \in kept : i >= j)
Trim(q) == TrimRight(TrimLeft(q))

\* what the services can answer to one request
Answers(svc) ==
    IF svc = "forecast" THEN {"ok", "malformed", "s500"}
    ELSE IF svc = "marine" THEN {"ok", "malformed", "s400"}
    ELSE IF svc = "geo" THEN {"ok", "malformed", "net"}
    ELSE {"ok", "net"}

WpNoData == [kind |-> "null", loc |-> "none", view |-> "none", id |-> 0]
\* the response body a to request r, tagged with the request it answers
WpPayload(r, a) ==
    [kind |-> a, loc |-> r.loc, view |-> r.view, id |-> r.id]

WpFetchFailedMsg == "Failed to fetch weather data"
NotFoundMsg == "Location not found"
SearchFailedMsg == "Failed to search location"

\* a JavaScript number used as a condition
Truthy(x) == x # 0

\* the render guards: spinner, nothing at all, or the app
WpScreen ==
    IF wpCrashed THEN "crashed"
    ELSE IF wpLoading /\ weatherData = WpNoData THEN "spinner"
    ELSE IF weatherData = WpNoData THEN "blank"
    ELSE "app"

\* an effect that fetches the marine data with every forecast
EffectCalls_AlwaysMarine(l, v) ==
    IF Truthy(Coord(l).lat) /\ Truthy(Coord(l).lon)
      THEN <<"forecast">> \o (IF v = "historical" THEN <<"historical">> ELSE << >>)
                          \o <<"marine">>
      ELSE << >>

\* the services the effect on [location, selectedHistoricalDate, activeView]
\* calls, in call order
EffectCalls(l, v) ==
    IF Truthy(Coord(l).lat) /\ Truthy(Coord(l).lon)
      THEN <<"forecast">> \o (IF v = "historical" THEN <<"historical">> ELSE << >>)
                          \o (IF v = "marine" THEN <<"marine">> ELSE << >>)
      ELSE << >>

\* the effect: every fetcher runs up to its await; max is the number of
\* requests explored
RunEffect(l, v, d, max) ==
    LET calls == EffectCalls(l, v) IN
    /\ wpSeq + Len(calls) - 1 <= max
    /\ wpReqs' = wpReqs \cup
         {[id |-> wpSeq + i - 1, svc |-> calls[i], loc |-> l, view |-> v,
           q |-> << >>] : i \in 1..Len(calls)}
    /\ wpSeq' = wpSeq + Len(calls)
    /\ IF Len(calls) > 0
         THEN wpLoading' = TRUE /\ wpError' = NoError
         ELSE UNCHANGED <<wpLoading, wpError>>

WpInit ==
    /\ location = DefaultLoc
    /\ weatherData = WpNoData
    /\ historicalData = WpNoData
    /\ marineData = WpNoData
    /\ wpLoading = TRUE
    /\ wpError = NoError
    /\ activeView = "current"
    /\ selectedHistoricalDate = "d1"
    /\ searchInput = << >>
    /\ searchResults = << >>
    /\ showSearch = FALSE
    /\ wpReqs = {[id |-> 1, svc |-> "forecast", loc |-> DefaultLoc,
                  view |-> "current", q |-> << >>]}
    /\ wpSeq = 2
    /\ wpFresh = FALSE
    /\ wpCrashed = FALSE

WpParked == WpInit

\* fetchWeatherData, try branch and finally
WpForecastResolve(r, a) ==
    /\ ~wpCrashed
    /\ r \in wpReqs /\ r.svc = "forecast" /\ a \in Resolving
    /\ wpReqs' = wpReqs \ {r}
    /\ weatherData' = WpPayload(r, a)
    /\ wpFresh' = TRUE
    /\ wpLoading' = FALSE
    /\ wpCrashed' \in (IF a = "malformed" THEN BOOLEAN ELSE {FALSE})
    /\ UNCHANGED <<location, historicalData, marineData, wpError, activeView,
                   selectedHistoricalDate, searchInput, searchResults,
                   showSearch, wpSeq>>
    /\ UNCHANGED notWp

\* fetchWeatherData, catch branch and finally
WpForecastReject(r, a) ==
    /\ ~wpCrashed
    /\ r \in wpReqs /\ r.svc = "forecast" /\ a \in Rejecting
    /\ wpReqs' = wpReqs \ {r}
    /\ wpError' = WpFetchFailedMsg
    /\ wpLoading' = FALSE
    /\ UNCHANGED <<location, weatherData, historicalData, marineData,
                   activeView, selectedHistoricalDate, searchInput,
                   searchResults, showSearch, wpSeq, wpFresh, wpCrashed>>
    /\ UNCHANGED notWp

\* fetchHistoricalData: setHistoricalData(response.data), or console.error
WpHistoricalSettle(r, a) ==
    /\ ~wpCrashed
    /\ r \in wpReqs /\ r.svc = "historical"
    /\ wpReqs' = wpReqs \ {r}
    /\ historicalData' = IF a \in Resolving THEN WpPayload(r, a) ELSE historicalData
    /\ UNCHANGED <<location, weatherData, marineData, wpLoading, wpError,
                   activeView, selectedHistoricalDate, searchInput,
                   searchResults, showSearch, wpSeq, wpFresh, wpCrashed>>
    /\ UNCHANGED notWp

\* fetchMarineData, try branch: setMarineData(response.data)
WpMarineResolve(r, a) ==
    /\ ~wpCrashed
    /\ r \in wpReqs /\ r.svc = "marine" /\ a \in Resolving
    /\ wpReqs' = wpReqs \ {r}
    /\ marineData' = WpPayload(r, a)
    /\ UNCHANGED <<location, weatherData, historicalData, wpLoading, wpError,
                   activeView, selectedHistoricalDate, searchInput,
                   searchResults, showSearch, wpSeq, wpFresh, wpCrashed>>
    /\ UNCHANGED notWp

\* a catch branch that reports the marine failure like a forecast failure
WpMarineReject_SetsError(r, a) ==
    /\ ~wpCrashed
    /\ r \in wpReqs /\ r.svc = "marine" /\ a \in Rejecting
    /\ wpReqs' = wpReqs \ {r}
    /\ marineData' = WpNoData
    /\ wpError' = WpFetchFailedMsg
    /\ UNCHANGED <<location, weatherData, historicalData, wpLoading,
                   activeView, selectedHistoricalDate, searchInput,
                   searchResults, showSearch, wpSeq, wpFresh, wpCrashed>>
    /\ UNCHANGED notWp

\* fetchMarineData, catch branch: setMarineData(null)
WpMarineReject(r, a) ==
    /\ ~wpCrashed
    /\ r \in wpReqs /\ r.svc = "marine" /\ a \in Rejecting
    /\ wpReqs' = wpReqs \ {r}
    /\ marineData' = WpNoData
    /\ UNCHANGED <<location, weatherData, historicalData, wpLoading, wpError,
                   activeView, selectedHistoricalDate, searchInput,
                   searchResults, showSearch, wpSeq, wpFresh, wpCrashed>>
    /\ UNCHANGED notWp

\* click on a view tab, then the effect
SetActiveView(v, max) ==
    /\ WpScreen = "app"
    /\ v # activeView
    /\ activeView' = v
    /\ RunEffect(location, v, selectedHistoricalDate, max)
    /\ UNCHANGED <<location, weatherData, historicalData, marineData,
                   selectedHistoricalDate, searchInput, searchResults,
                   showSearch, wpFresh, wpCrashed>>
    /\ UNCHANGED notWp

\* date picker of the historical view, then the effect
SetSelectedDate(d, max) ==
    /\ WpScreen = "app"
    /\ activeView = "historical" /\ historicalData # WpNoData
    /\ d # selectedHistoricalDate
    /\ selectedHistoricalDate' = d
    /\ RunEffect(location, activeView, d, max)
    /\ UNCHANGED <<location, weatherData, historicalData, marineData,
                   activeView, searchInput, searchResults, showSearch, wpFresh,
                   wpCrashed>>
    /\ UNCHANGED notWp

\* the location label / search button, and the close button / overlay
SetShowSearch(b) ==
    /\ WpScreen = "app"
    /\ showSearch # b
    /\ showSearch' = b
    /\ UNCHANGED <<location, weatherData, historicalData, marineData,
                   wpLoading, wpError, activeView, selectedHistoricalDate,
                   searchInput, searchResults, wpReqs, wpSeq, wpFresh, wpCrashed>>
    /\ UNCHANGED notWp

\* onChange of the search form input
SetSearchInput(v) ==
    /\ WpScreen = "app" /\ showSearch
    /\ v # searchInput
    /\ searchInput' = v
    /\ UNCHANGED <<location, weatherData, historicalData, marineData,
                   wpLoading, wpError, activeView, selectedHistoricalDate,
                   searchResults, showSearch, wpReqs, wpSeq, wpFresh, wpCrashed>>
    /\ UNCHANGED notWp

\* handleSearch -> searchLocation(searchInput), up to its await
SearchLocation(max) ==
    /\ WpScreen = "app" /\ showSearch
    /\ Trim(searchInput) # << >>
    /\ wpSeq <= max
    /\ wpReqs' = wpReqs \cup {[id |-> wpSeq, svc |-> "geo", loc |-> "none",
                              view |-> "none", q |-> searchInput]}
    /\ wpSeq' = wpSeq + 1
    /\ UNCHANGED <<location, weatherData, historicalData, marineData,
                   wpLoading, wpError, activeView, selectedHistoricalDate,
                   searchInput, searchResults, showSearch, wpFresh, wpCrashed>>
    /\ UNCHANGED notWp

\* response.data.results of the geocoder; a malformed body carries a place
\* whose latitude lies outside the globe, the answer "okEquator" a place on
\* the equator
WpGeoResults(q, a) ==
    IF GeoResults(q) = << >> THEN << >>
    ELSE IF a = "malformed" THEN <<"Offgrid">>
    ELSE IF a = "okEquator" THEN <<"Equator">>
    ELSE GeoResults(q)

\* searchLocation after the await
WpGeoSettle(r, a) ==
    /\ ~wpCrashed
    /\ r \in wpReqs /\ r.svc = "geo"
    /\ wpReqs' = wpReqs \ {r}
    /\ IF a \in Rejecting
         THEN searchResults' = << >> /\ wpError' = SearchFailedMsg
         ELSE IF WpGeoResults(r.q, a) # << >>
                THEN searchResults' = WpGeoResults(r.q, a) /\ wpError' = wpError
                ELSE searchResults' = << >> /\ wpError' = NotFoundMsg
    /\ UNCHANGED <<location, weatherData, historicalData, marineData,
                   wpLoading, activeView, selectedHistoricalDate, searchInput,
                   showSearch, wpSeq, wpFresh, wpCrashed>>
    /\ UNCHANGED notWp

\* click on a search result, then the effect
SelectLocation(i, max) ==
    /\ WpScreen = "app" /\ showSearch
    /\ i \in 1..Len(searchResults)
    /\ location' = searchResults[i]
    /\ showSearch' = FALSE
    /\ searchInput' = << >>
    /\ searchResults' = << >>
    /\ RunEffect(searchResults[i], activeView, selectedHistoricalDate, max)
    /\ UNCHANGED <<weatherData, historicalData, marineData, activeView,
                   selectedHistoricalDate, wpFresh, wpCrashed>>
    /\ UNCHANGED notWp

\* time passes: the forecast held outlives the freshness window
WpTick ==
    /\ weatherData # WpNoData
    /\ wpFresh
    /\ wpFresh' = FALSE
    /\ UNCHANGED <<location, weatherData, historicalData, marineData,
                   wpLoading, wpError, activeView, selectedHistoricalDate,
                   searchInput, searchResults, showSearch, wpReqs, wpSeq,
                   wpCrashed>>
    /\ UNCHANGED notWp

WpNext ==
    \/ \E r \in wpReqs : \E a \in Answers("forecast") : WpForecastResolve(r, a)
    \/ \E r \in wpReqs : \E a \in Answers("forecast") : WpForecastReject(r, a)
    \/ \E r \in wpReqs : \E a \in Answers("historical") : WpHistoricalSettle(r, a)
    \/ \E r \in wpReqs : \E a \in Answers("marine") : WpMarineResolve(r, a)
    \/ \E r \in wpReqs : \E a \in Answers("marine") : WpMarineReject(r, a)
    \/ \E v \in Views : SetActiveView(v, MaxWpReqs)
    \/ \E d \in Dates : SetSelectedDate(d, MaxWpReqs)
    \/ \E b \in BOOLEAN : SetShowSearch(b)
    \/ \E v \in WpQueries : SetSearchInput(v)
    \/ SearchLocation(MaxWpReqs)
    \/ \E r \in wpReqs : \E a \in Answers("geo") : WpGeoSettle(r, a)
    \/ \E i \in 1..1 : SelectLocation(i, MaxWpReqs)

\* the WeatherApp explored up to MaxWpLongReqs requests
WpLongNext ==
    \/ \E r \in wpReqs : \E a \in Answers("forecast") : WpForecastResolve(r, a)
    \/ \E r \in wpReqs : \E a \in Answers("forecast") : WpForecastReject(r, a)
    \/ \E r \in wpReqs : \E a \in Answers("historical") : WpHistoricalSettle(r, a)
    \/ \E r \in wpReqs : \E a \in Answers("marine") : WpMarineResolve(r, a)
    \/ \E r \in wpReqs : \E a \in Answers("marine") : WpMarineReject(r, a)
    \/ \E v \in Views : SetActiveView(v, MaxWpLongReqs)
    \/ \E d \in Dates : SetSelectedDate(d, MaxWpLongReqs)
    \/ \E b \in BOOLEAN : SetShowSearch(b)
    \/ \E v \in WpQueries : SetSearchInput(v)
    \/ SearchLocation(MaxWpLongReqs)
    \/ \E r \in wpReqs : \E a \in Answers("geo") : WpGeoSettle(r, a)
    \/ \E i \in 1..1 : SelectLocation(i, MaxWpLongReqs)

\* the WeatherApp with a geocoder that also knows a place on the equator
WpEquatorNext == WpNext \/ \E r \in wpReqs : WpGeoSettle(r, "okEquator")

\* the WeatherApp and the clock against which freshness is measured
WpClockNext == WpNext \/ WpTick

(* ---------------------------- CacheService ----------------------------- *)
\* last minute of the clock
MaxNow == 12
\* weather-cache TTL and the staleness window, in minutes
WeatherTTL == 10
StaleAfter == 5

Keys == {"wx:New Delhi", "wx:Paris"}
Values == {"v1", "v2"}
TTLs == {WeatherTTL}
NoValue == "null"

\* this.cache.get(key) of an absent key
Absent == [has |-> FALSE, value |-> NoValue, expiresAt |-> 0]
NeverWritten == [at |-> -1, value |-> NoValue, ttl |-> 0]
NoGet == [op |-> "none", key |-> "none", value |-> NoValue, tags |-> {},
          age |-> -1, ttl |-> 0, wrote |-> NoValue]

CacheInit ==
    /\ cache = [k \in Keys |-> Absent]
    /\ now = 0
    /\ written = [k \in Keys |-> NeverWritten]
    /\ lastGet = NoGet

\* set(key, value, ttl)
CacheSet(k, v, ttl) ==
    /\ cache' = [cache EXCEPT ![k] = [has |-> TRUE, value |-> v, expiresAt |-> now + ttl]]
    /\ written' = [written EXCEPT ![k] = [at |-> now, value |-> v, ttl |-> ttl]]
    /\ UNCHANGED <<now, lastGet>>
    /\ UNCHANGED notCache

\* a get for which the item is already expired at the instant T + ttl
GetValue_ExpiredAtTtl(k) ==
    IF ~cache[k].has THEN NoValue
    ELSE IF now >= cache[k].expiresAt THEN NoValue
    ELSE cache[k].value

\* what get(key) returns: null for an absent or expired item, else item.value
GetValue(k) ==
    IF ~cache[k].has THEN NoValue
    ELSE IF now > cache[k].expiresAt THEN NoValue
    ELSE cache[k].value

\* the Map after get(key): an expired item is deleted
AfterGet(k) ==
    IF cache[k].has /\ now > cache[k].expiresAt
      THEN [cache EXCEPT ![k] = Absent]
      ELSE cache

\* freshness marks carried by the value get returns: item.value is returned bare
GetTags(k) == {}

Observed(op, k) ==
    [op |-> op, key |-> k, value |-> GetValue(k), tags |-> GetTags(k),
     age |-> IF written[k].at < 0 THEN -1 ELSE now - written[k].at,
     ttl |-> written[k].ttl, wrote |-> written[k].value]

\* get(key)
CacheGet(k) ==
    /\ cache' = AfterGet(k)
    /\ lastGet' = Observed("get", k)
    /\ UNCHANGED <<now, written>>
    /\ UNCHANGED notCache

\* has(key): this.get(key) !== null
CacheHas(k) ==
    /\ cache' = AfterGet(k)
    /\ lastGet' = Observed("has", k)
    /\ UNCHANGED <<now, written>>
    /\ UNCHANGED notCache

\* clear()
CacheClear ==
    /\ cache' = [k \in Keys |-> Absent]
    /\ written' = [k \in Keys |-> NeverWritten]
    /\ UNCHANGED <<now, lastGet>>
    /\ UNCHANGED notCache

\* one minute passes
Tick ==
    /\ now < MaxNow
    /\ now' = now + 1
    /\ UNCHANGED <<cache, written, lastGet>>
    /\ UNCHANGED notCache

CacheNext ==
    \/ \E k \in Keys, v \in Values, ttl \in TTLs : CacheSet(k, v, ttl)
    \/ \E k \in Keys : CacheGet(k)
    \/ \E k \in Keys : CacheHas(k)
    \/ CacheClear
    \/ Tick

(* ------------------------ weatherApi request path ---------------------- *)
\* number of service calls in one behaviour
MaxApiCalls == 2

AllScripts == [1..MaxAttempts -> Outcomes]

NoResult == [class |-> "none", status |-> "none"]

ApiInit ==
    /\ apiPc = "idle"
    /\ apiScript = AllOk
    /\ apiCalls = 0
    /\ apiDelays = << >>
    /\ apiResult = NoResult
    /\ apiDone = 0

\* the service function is entered: axios.get(url, { timeout, ...config })
ApiCall ==
    /\ apiPc # "awaiting"
    /\ apiDone < MaxApiCalls
    /\ apiPc' = "awaiting"
    /\ apiScript' \in AllScripts
    /\ apiCalls' = 1
    /\ apiDelays' = << >>
    /\ apiResult' = NoResult
    /\ UNCHANGED apiDone
    /\ UNCHANGED notApi

\* validateResponse(response): passes a well-formed body, throws otherwise
ValidResponse(o) == o = "ok"

\* try branch: the response passes validateResponse, response.data is returned
ApiReturn ==
    /\ apiPc = "awaiting"
    /\ apiScript[apiCalls] \in Resolving
    /\ ValidResponse(apiScript[apiCalls])
    /\ apiPc' = "returned"
    /\ apiResult' = [class |-> "data", status |-> "none"]
    /\ apiDone' = apiDone + 1
    /\ UNCHANGED <<apiScript, apiCalls, apiDelays>>
    /\ UNCHANGED notApi

\* validateResponse throws inside the try: the error has neither response nor
\* request, so the catch block throws RequestError
ApiInvalid ==
    /\ apiPc = "awaiting"
    /\ apiScript[apiCalls] \in Resolving
    /\ ~ValidResponse(apiScript[apiCalls])
    /\ apiPc' = "thrown"
    /\ apiResult' = [class |-> "RequestError", status |-> "none"]
    /\ apiDone' = apiDone + 1
    /\ UNCHANGED <<apiScript, apiCalls, apiDelays>>
    /\ UNCHANGED notApi

\* a request path that tries again after an error response
ApiErrorResponse_Retrying ==
    /\ apiPc = "awaiting"
    /\ apiScript[apiCalls] \in {"s429", "s500", "s400"}
    /\ IF apiCalls < MaxAttempts
         THEN /\ apiCalls' = apiCalls + 1
              /\ apiDelays' = Append(apiDelays, BaseDelay * 2^(apiCalls - 1))
              /\ UNCHANGED <<apiPc, apiResult, apiDone>>
         ELSE /\ apiPc' = "thrown"
              /\ apiResult' = [class |-> "ApiError", status |-> apiScript[apiCalls]]
              /\ apiDone' = apiDone + 1
              /\ UNCHANGED <<apiCalls, apiDelays>>
    /\ UNCHANGED apiScript
    /\ UNCHANGED notApi

\* catch, error.response set: throw new ApiError(status, data)
ApiErrorResponse ==
    /\ apiPc = "awaiting"
    /\ apiScript[apiCalls] \in {"s429", "s500", "s400"}
    /\ apiPc' = "thrown"
    /\ apiResult' = [class |-> "ApiError", status |-> apiScript[apiCalls]]
    /\ apiDone' = apiDone + 1
    /\ UNCHANGED <<apiScript, apiCalls, apiDelays>>
    /\ UNCHANGED notApi

\* catch, error.request set (no response, timeout): throw new NetworkError
ApiNoResponse ==
    /\ apiPc = "awaiting"
    /\ apiScript[apiCalls] = "net"
    /\ apiPc' = "thrown"
    /\ apiResult' = [class |-> "NetworkError", status |-> "none"]
    /\ apiDone' = apiDone + 1
    /\ UNCHANGED <<apiScript, apiCalls, apiDelays>>
    /\ UNCHANGED notApi

ApiNext ==
    \/ ApiCall
    \/ ApiReturn
    \/ ApiInvalid
    \/ ApiErrorResponse
    \/ ApiNoResponse

(* ------------------------- sanitizeSearchQuery ------------------------- *)
\* longest argument tried
MaxInputLen == 101
\* sanitized.substring(0, 100)
MaxQueryLength == 100

\* the HTML special characters and what each is replaced by
Amp == <<"&", "a", "m", "p", ";">>
Lt == <<"&", "l", "t", ";">>
Gt == <<"&", "g", "t", ";">>
Quot == <<"&", "q", "u", "o", "t", ";">>
Apos == <<"&", "#", "x", "2", "7", ";">>

\* String.prototype.replace(/c/g, by) on a character sequence
RECURSIVE ReplaceAll(_, _, _)
ReplaceAll(q, c, by) ==
    IF Len(q) = 0 THEN << >>
    ELSE IF Len(q) = 1 THEN (IF q[1] = c THEN by ELSE q)
    ELSE LET half == Len(q) \div 2 IN
         ReplaceAll(SubSeq(q, 1, half), c, by)
            \o ReplaceAll(SubSeq(q, half + 1, Len(q)), c, by)

\* String.prototype.substring(0, n)
Substring0(q, n) == SubSeq(q, 1, IF Len(q) < n THEN Len(q) ELSE n)

\* sanitizeSearchQuery(input): trim, limit the length, escape
SanitizeSearchQuery(input) ==
    LET trimmed == Trim(input)
        limited == Substring0(trimmed, MaxQueryLength)
        e1 == ReplaceAll(limited, "&", Amp)
        e2 == ReplaceAll(e1, "<", Lt)
        e3 == ReplaceAll(e2, ">", Gt)
        e4 == ReplaceAll(e3, "\"", Quot)
    IN  ReplaceAll(e4, "'", Apos)

\* the arguments tried: runs of one character, alone or alternating with a
\* letter, bare or padded with whitespace
SanChars == {" ", "\t", "a", "&", "<", ">", "\"", "'"}
SanLens == (0..2) \cup ((MaxQueryLength - 1)..MaxInputLen)
SanInputs ==
    {pad \o [i \in 1..n |-> IF alt /\ i % 2 = 0 THEN "a" ELSE c] \o pad :
        pad \in {<< >>, <<" ">>}, n \in SanLens, c \in SanChars, alt \in BOOLEAN}

SanInit ==
    /\ sanInput \in SanInputs
    /\ sanPc = "idle"
    /\ sanOutput = << >>

SanParked ==
    /\ sanInput = << >>
    /\ sanPc = "idle"
    /\ sanOutput = << >>

\* one call of sanitizeSearchQuery
SanCall ==
    /\ sanPc = "idle"
    /\ sanOutput' = SanitizeSearchQuery(sanInput)
    /\ sanPc' = "returned"
    /\ UNCHANGED sanInput
    /\ UNCHANGED notSan

SanNext == SanCall

(* --------------------------- specifications ---------------------------- *)
Init == AtmosInit /\ CacheInit /\ ApiInit /\ WpParked /\ SanParked
Next == AtmosNext
Spec == Init /\ [][Next]_vars

\* Atmos with the timers of the browser: an armed timer fires
FairSpec == Init /\ [][Next]_vars /\ WF_vars(LoadTimerFire)

CacheSpecInit == AtmosParked /\ CacheInit /\ ApiInit /\ WpParked /\ SanParked
CacheSpec == CacheSpecInit /\ [][CacheNext]_vars

WpSpecInit == AtmosParked /\ CacheInit /\ ApiInit /\ WpInit /\ SanParked
WpSpec == WpSpecInit /\ [][WpNext]_vars
WpClockSpec == WpSpecInit /\ [][WpClockNext]_vars
WpEquatorSpec == WpSpecInit /\ [][WpEquatorNext]_vars
WpLongSpec == WpSpecInit /\ [][WpLongNext]_vars

ApiSpecInit == AtmosParked /\ CacheInit /\ ApiInit /\ WpParked /\ SanParked
ApiSpec == ApiSpecInit /\ [][ApiNext]_vars

SanSpecInit == AtmosParked /\ CacheInit /\ ApiInit /\ WpParked /\ SanInit
SanSpec == SanSpecInit /\ [][SanNext]_vars


(* ------------------------- claims on Atmos ----------------------------- *)

\* C1: for one key, when the fetch started earlier resolves after the fetch
\* started later, the older result is discarded: the data served for the key
\* stays the newer fetch's result.
C1_OlderResultDiscarded ==
    [][\A r \in wxReqs :
          (r \notin wxReqs' /\ wx.kind # "null" /\ wx.loc = r.loc /\ wx.gen > r.gen)
             => wx' = wx]_vars

\* C2: after the active location was switched from A to B, the result of the
\* fetch for A that arrives later is discarded: it is never stored as the
\* weather data shown for B.
C2_PreviousLocationDiscarded ==
    [][\A r \in wxReqs :
          (r \notin wxReqs' /\ r.loc # loc) => wx' = wx]_vars

\* C5: an operation that fails retryably twice and then succeeds is invoked
\* exactly three times, with waits of baseDelay and 2*baseDelay, and the
\* success result is returned.
C5_FailTwiceThenSucceed ==
    lastSettled.script = FailTwiceThenOk =>
        /\ lastSettled.calls = 3
        /\ lastSettled.delays = <<BaseDelay, 2 * BaseDelay>>
        /\ lastSettled.result = "stored"

\* C8: HTTP 500 on three attempts in a row for a key without data ends in the
\* Failed state with an error of kind ServerError.
C8_ServerErrorKind ==
    (/\ lastSettled.script = AlwaysS500
     /\ lastSettled.gen = nextGen - 1
     /\ wxReqs = {} /\ loadTimers = 0
     /\ wx = NoData)
        => (Screen = "error" /\ EmittedErrorKind = "ServerError")

C25_DataMatchesLocation ==
    (wxReqs = {} /\ Screen = "main" /\ wx # NoData) => wx.loc = loc

\* C26: the loading flag is true whenever a forecast fetch is in flight.
C26_LoadingWhileInFlight ==
    (wxReqs # {} /\ ~crashed) => loading

\* the state of the orchestration as the app presents it: the loading flag,
\* the full-screen error state, data after a failed fetch, plain data
OrchState ==
    IF loading THEN "Loading"
    ELSE IF wx = NoData THEN (IF error # NoError THEN "Failed" ELSE "Idle")
    ELSE IF lastSettled.result = "failed" THEN "Stale"
    ELSE "Success"

\* C22: the state changes only along the listed transitions: Success, Stale
\* and Failed are entered from Loading only; Loading is entered by a request
\* or a refresh, Idle by an invalidation.
C22_ListedTransitionsOnly ==
    [][OrchState' # OrchState =>
          (OrchState = "Loading" \/ OrchState' \in {"Loading", "Idle"})]_vars

(* ---------------------- claims on CacheService ------------------------- *)

\* C3: for an entry written at T with ttl = 10 min and a staleness window of
\* 5 min, a read at T+4 returns the value marked fresh, a read at T+6 returns
\* the value marked stale, and a read at T+11 is a miss.
C3_FreshStaleMiss ==
    (lastGet.op = "get" /\ lastGet.ttl = WeatherTTL /\ lastGet.age >= 0) =>
        /\ lastGet.age = 4 =>
             (lastGet.value = lastGet.wrote /\ "stale" \notin lastGet.tags)
        /\ lastGet.age = 6 =>
             (lastGet.value = lastGet.wrote /\ "stale" \in lastGet.tags)
        /\ lastGet.age = 11 => lastGet.value = NoValue

\* C24: an entry written at T with ttl is returned by get at every time up to
\* and including T + ttl; a get after T + ttl is a miss and removes the entry
\* on that access; an entry leaves the store only by such an access or by
\* clear, never by the passage of time alone.
C24_ExpiryIsLazy ==
    /\ []((lastGet.op = "get" /\ lastGet.age >= 0) =>
            /\ lastGet.age <= lastGet.ttl => lastGet.value = lastGet.wrote
            /\ lastGet.age > lastGet.ttl => lastGet.value = NoValue)
    /\ [][\A k \in Keys :
            /\ (CacheGet(k) /\ cache[k].has /\ now > cache[k].expiresAt)
                 => ~cache'[k].has
            /\ (cache[k].has /\ ~cache'[k].has) =>
                 \/ \A j \in Keys : ~cache'[j].has
                 \/ /\ now > cache[k].expiresAt
                    /\ now' = now
                    /\ lastGet'.op \in {"get", "has"}
                    /\ lastGet'.key = k /\ lastGet'.value = NoValue]_vars

\* a get one minute after T + ttl: a miss, and the entry is gone
C24_Witness ==
    /\ lastGet.op = "get"
    /\ lastGet.wrote # NoValue
    /\ lastGet.age = lastGet.ttl + 1
    /\ lastGet.value = NoValue
    /\ \E k \in Keys :
         /\ lastGet.key = k
         /\ now = written[k].at + written[k].ttl + 1
         /\ ~cache[k].has

\* config.cache.locationTTL, in minutes
LocationTTL == 1440

\* C23: once a fetch has returned its payload, the cache holds an entry
\* written at that time with the TTL of its data class (10 minutes for
\* weather, 24 hours for locations).
C23_SuccessfulFetchCached ==
    apiPc = "returned" =>
        \E k \in Keys :
            /\ cache[k].has
            /\ cache[k].expiresAt \in {now + WeatherTTL, now + LocationTTL}

(* ------------------ claims on the weatherApi request path -------------- *)

ApiSettled == apiPc \in {"returned", "thrown"}

\* the error class the request path throws for a failed attempt
Classified(o) ==
    IF o = "net" THEN [class |-> "NetworkError", status |-> "none"]
    ELSE IF o = "malformed" THEN [class |-> "RequestError", status |-> "none"]
    ELSE [class |-> "ApiError", status |-> o]

\* C6: an operation that fails retryably on every attempt is invoked exactly
\* maxAttempts times, with a wait of baseDelay*2^i after failed attempt i, and
\* then rejects with the classified error of the last attempt.
C6_ExhaustedRetries ==
    (ApiSettled /\ \A k \in 1..MaxAttempts : apiScript[k] \in Retryable) =>
        /\ apiCalls = MaxAttempts
        /\ apiDelays = [i \in 1..(MaxAttempts - 1) |-> BaseDelay * 2^(i - 1)]
        /\ apiPc = "thrown"
        /\ apiResult = Classified(apiScript[MaxAttempts])

\* C7: an attempt that fails with a non-retryable failure (HTTP 4xx other
\* than 429, or a malformed payload) makes the call fail at once: the
\* operation is not invoked again and no backoff wait occurs.
C7_NonRetryableFailsAtOnce ==
    (ApiSettled /\ apiScript[1] \in NonRetryable) =>
        /\ apiPc = "thrown"
        /\ apiCalls = 1
        /\ apiDelays = << >>
        /\ apiResult = Classified(apiScript[1])

C7_Witness ==
    /\ apiPc = "thrown"
    /\ apiScript[1] \in NonRetryable
    /\ apiScript[2] = "ok"
    /\ apiCalls = 1

(* ----------------------- claims on WeatherApp -------------------------- *)

\* C4: a request for a (location, view) whose forecast data is held and is
\* neither stale nor expired is answered from what is held: no forecast
\* request is issued for it.
C4_FreshEntryNoRequest ==
    [][\A r \in wpReqs' \ wpReqs :
          ~(/\ r.svc = "forecast"
            /\ weatherData.kind = "ok"
            /\ weatherData.loc = r.loc /\ weatherData.view = r.view
            /\ wpFresh)]_vars

\* C10: when the forecast fetch has succeeded and the marine fetch fails
\* (malformed payload, error response), the marine data becomes null, the
\* forecast data is kept and no error is surfaced because of it.
C10_MarineFailureIsNull ==
    [][\A r \in wpReqs :
          (/\ r.svc = "marine" /\ r \notin wpReqs'
           /\ marineData' # WpPayload(r, "ok")
           /\ weatherData.kind = "ok" /\ weatherData.loc = r.loc)
             => (/\ marineData' = WpNoData
                 /\ weatherData' = weatherData
                 /\ wpError' = wpError)]_vars

NewGeoReqs ==
    {g \in BagToSet(geoReqs') : CopiesIn(g, geoReqs') > CopiesIn(g, geoReqs)}

\* C12: no geocoding request is issued for a query made of whitespace only.
C12_NoRequestForWhitespace ==
    [][\A g \in NewGeoReqs : Trim(g.q) # << >>]_vars

\* C13: for an argument longer than the maximum, the string returned by
\* sanitizeSearchQuery is at most the maximum long.
C13_LengthLimited ==
    (sanPc = "returned" /\ Len(sanInput) > MaxQueryLength)
       => Len(sanOutput) <= MaxQueryLength

\* Validation Rules of the design: lat [-90, 90], lon [-180, 180]
InRange(c) == c.lat \in -90..90 /\ c.lon \in -180..180

\* C14: no forecast or marine request is issued for a coordinate pair with the
\* latitude outside [-90, 90] or the longitude outside [-180, 180].
C14_NoRequestOutOfRange ==
    [][\A r \in wpReqs' \ wpReqs :
          r.svc \in {"forecast", "marine"} => InRange(Coord(r.loc))]_vars

\* C27: every location with coordinates in range, latitude 0 and longitude 0
\* included, triggers a forecast fetch when it becomes the active location.
C27_InRangeLocationFetches ==
    [][(location' # location /\ InRange(Coord(location'))) =>
          \E r \in wpReqs' \ wpReqs :
              r.svc = "forecast" /\ r.loc = location']_vars

C28_ResultsOfLatestQuery ==
    (geoReqs = EmptyBag /\ searchTimer = {} /\ ~crashed) =>
        IF Len(query) >= 2
          THEN hits \in {GeoResults(query), << >>}
          ELSE hits = << >>

\* a search step left over from before: a pending debounce timer issues its
\* request, or the response of a pending request fills the result list
LateSearchEffect ==
    \/ \E v \in Queries : SearchTimerFire(v)
    \/ \E g \in BagToSet(geoReqs) : GeoResolve(g) /\ hits' # << >>

\* C29: selectCity leaves the query empty, the result list empty and the
\* dropdown closed, and nothing that was pending at the selection can act
\* afterwards: no debounce timer is left to issue a request and no response
\* is left to repopulate the results.
C29_SelectionEndsSearch ==
    [][(\E i \in 1..1 : SelectCity(i)) =>
          /\ query' = << >> /\ hits' = << >> /\ ~open'
          /\ ~(ENABLED LateSearchEffect)']_vars

\* C16: once a forecast call has failed and nothing is in flight any more,
\* the message set for the failure is on the screen.
C16_FailureMessageDisplayed ==
    (~wpCrashed /\ wpReqs = {} /\ wpError = WpFetchFailedMsg)
       => WpScreen = "app"

\* C17: a read that finds an entry past the staleness window and not yet
\* expired returns its value at once, marked stale, and signals a background
\* refresh of the key.
C17_StaleReadRefreshes ==
    (/\ lastGet.op = "get" /\ lastGet.value # NoValue
     /\ lastGet.ttl = WeatherTTL
     /\ lastGet.age > StaleAfter /\ lastGet.age <= WeatherTTL)
       => (/\ lastGet.value = lastGet.wrote
           /\ {"stale", "refresh"} \subseteq lastGet.tags)

\* a step of the WeatherApp that issues a new forecast request
WpRequestStep == WpNext /\ \E r \in wpReqs' \ wpReqs : r.svc = "forecast"

\* C18: a failed fetch is not absorbing: once a forecast fetch has failed and
\* nothing is in flight, a next request can be made (a fresh forecast fetch
\* can be started), also when the failed fetch was the first one.
C18_FailureNotAbsorbing ==
    (/\ ~wpCrashed /\ wpReqs = {} /\ wpError = WpFetchFailedMsg
     /\ wpSeq < MaxWpReqs)
       => ENABLED WpRequestStep

C30_MarineMatchesLocation ==
    (/\ WpScreen = "app" /\ activeView = "marine"
     /\ marineData # WpNoData
     /\ \A r \in wpReqs : r.svc # "marine")
       => marineData.loc = location

(* ------------------------ claims on the loading flag ------------------- *)

\* C20: once the last fetch in flight has completed, with success or with
\* failure, the loading flag does not stay true: it is cleared, unless a new
\* fetch starts first (or the page is gone).
C20_LoadingEventuallyRemoved ==
    (wxReqs = {} /\ loading /\ ~crashed)
        ~> (~loading \/ wxReqs # {} \/ crashed)

\* a fetch has failed, nothing is in flight or armed, and the flag is down
C20_Witness ==
    /\ lastSettled.result = "failed"
    /\ wxReqs = {} /\ loadTimers = 0
    /\ ~loading /\ ~crashed

====
